---- MODULE Spec2Model ----
(***************************************************************************)
(* Model of ultrasequence: File, Sequence, frame_ranges_to_string,         *)
(* Sequence.format and Parser.                                             *)
(*                                                                         *)
(* A Python str is a sequence of one-character strings, so that splitting, *)
(* joining, int() and str() are computed character by character.           *)
(***************************************************************************)
EXTENDS Integers, Sequences, FiniteSets, TLC

VARIABLES
    cfg_ignore_padding, \* config.cfg.ignore_padding (process-wide)
    seq,                \* one Sequence object
    last,               \* the last call made on seq and how it ended
    order,              \* history: the paths inserted into seq, in order
    parser,             \* one Parser object
    listing,            \* the paths the directory walk or the manifest yields
    run,                \* history: the last Parser run's input and outcome
    frame_list,         \* the caller's list handed to frame_ranges_to_string
    arg_list,           \* history: that list as it was before the call
    ranges_out,         \* what frame_ranges_to_string returned
    fmt_template,       \* the template handed to Sequence.format
    fmt_out,            \* what Sequence.format returned or raised
    file_path,          \* the path handed to File()
    file_obj            \* the File built from it

vars == <<cfg_ignore_padding, seq, last, order, parser, listing, run, frame_list,
          arg_list, ranges_out, fmt_template, fmt_out, file_path, file_obj>>

-----------------------------------------------------------------------------
(* Bounds *)

MaxFrames == 3

MaxFiles == 3

MaxListLen == 4

MaxFrameNo == 12

MaxTemplateLen == 3

-----------------------------------------------------------------------------
(* Python str and list primitives *)

Digit == <<"0", "1", "2", "3", "4", "5", "6", "7", "8", "9">>

IsDigit(c) == \E d \in 1..10 : Digit[d] = c

DigitVal(c) == CHOOSE d \in 0..9 : Digit[d + 1] = c

RECURSIVE int(_)
\* int(s) for a non-empty string of decimal digits
int(s) ==
    IF Len(s) = 0 THEN 0
    ELSE 10 * int(SubSeq(s, 1, Len(s) - 1)) + DigitVal(s[Len(s)])

RECURSIVE str(_)
\* str(n) for an int n >= 0
str(n) ==
    IF n < 10 THEN <<Digit[n + 1]>>
    ELSE str(n \div 10) \o <<Digit[(n % 10) + 1]>>

\* s.find(c) + 1 when c occurs in s
find(s, c) ==
    CHOOSE k \in 1..Len(s) : s[k] = c /\ \A j \in 1..(k - 1) : s[j] # c

RECURSIVE Split(_, _), SplitAt(_, _, _)
SplitAt(s, c, i) ==
    <<SubSeq(s, 1, i - 1)>> \o Split(SubSeq(s, i + 1, Len(s)), c)

\* s.split(c): the pieces of s between occurrences of the character c
Split(s, c) ==
    IF \A i \in 1..Len(s) : s[i] # c THEN <<s>>
    ELSE SplitAt(s, c, find(s, c))

RECURSIVE Join(_, _)
\* sep.join(parts)
Join(parts, sep) ==
    IF Len(parts) = 0 THEN <<>>
    ELSE IF Len(parts) = 1 THEN parts[1]
    ELSE parts[1] \o sep \o Join(Tail(parts), sep)

UpperCase ==
    <<"A", "B", "C", "D", "E", "F", "G", "H", "I", "J", "K", "L", "M",
      "N", "O", "P", "Q", "R", "S", "T", "U", "V", "W", "X", "Y", "Z">>

LowerCase ==
    <<"a", "b", "c", "d", "e", "f", "g", "h", "i", "j", "k", "l", "m",
      "n", "o", "p", "q", "r", "s", "t", "u", "v", "w", "x", "y", "z">>

LowerChar(c) ==
    IF \E i \in 1..26 : UpperCase[i] = c
    THEN LowerCase[CHOOSE i \in 1..26 : UpperCase[i] = c]
    ELSE c

\* s.lower()
Lower(s) == [i \in 1..Len(s) |-> LowerChar(s[i])]

RECURSIVE Repeat(_, _)
\* s * n
Repeat(s, n) == IF n <= 0 THEN <<>> ELSE s \o Repeat(s, n - 1)

\* sorted(S) for a finite set of ints
min(S) == CHOOSE x \in S : \A y \in S : x <= y

max(S) == CHOOSE x \in S : \A y \in S : x >= y

\* sorted(S) for a finite set of ints
RECURSIVE sorted(_)
sorted(S) == IF S = {} THEN <<>> ELSE <<min(S)>> \o sorted(S \ {min(S)})

-----------------------------------------------------------------------------
(* os.path *)

\* os.path.split(p): (everything before the last '/', everything after it);
\* trailing slashes are stripped from the head unless it is all slashes
RECURSIVE RStripSlash(_)
RStripSlash(s) ==
    IF Len(s) > 0 /\ s[Len(s)] = "/" THEN RStripSlash(SubSeq(s, 1, Len(s) - 1))
    ELSE s

\* p.rfind(c) + 1: the position of the last c in p, 0 when there is none
rfind(p, c) ==
    IF \A k \in 1..Len(p) : p[k] # c THEN 0
    ELSE CHOOSE k \in 1..Len(p) :
             p[k] = c /\ \A j \in (k + 1)..Len(p) : p[j] # c

split_head(head, stripped) == IF Len(stripped) > 0 THEN stripped ELSE head

split_at(p, i) ==
    <<split_head(SubSeq(p, 1, i), RStripSlash(SubSeq(p, 1, i))),
      SubSeq(p, i + 1, Len(p))>>

os_path_split(p) == split_at(p, rfind(p, "/"))

\* os.path.join(a, b) for two components
os_path_join(a, b) ==
    IF Len(b) > 0 /\ b[1] = "/" THEN b
    ELSE IF Len(a) = 0 \/ a[Len(a)] = "/" THEN a \o b
    ELSE a \o <<"/">> \o b

-----------------------------------------------------------------------------
(* models.py: extract_frame, split_extension, File *)

\* None, for File.frame of a name without digits
None == -1

split_parts(parts) ==
    IF Len(parts) < 2 THEN <<parts[1], <<>>>>
    ELSE <<Join(SubSeq(parts, 1, Len(parts) - 1), <<".">>), parts[Len(parts)]>>

split_extension(filename) == split_parts(Split(filename, "."))

\* the groups of a match of cfg.frame_extract_re whose digits run from
\* position first to position last_ of name
MatchGroups(name, first, last_) ==
    [matched |-> TRUE,
     head_is_none |-> first = 1,
     head |-> SubSeq(name, 1, first - 1),
     frame |-> SubSeq(name, first, last_),
     tail |-> SubSeq(name, last_ + 1, Len(name))]

\* the start of the run of digits of name that ends at position last_
RunStart(name, last_) ==
    CHOOSE j \in 1..last_ :
        /\ \A k \in j..last_ : IsDigit(name[k])
        /\ (j = 1 \/ ~IsDigit(name[j - 1]))

\* the position of the last digit of name
LastDigit(name) ==
    CHOOSE k \in 1..Len(name) :
        IsDigit(name[k]) /\ \A j \in (k + 1)..Len(name) : ~IsDigit(name[j])

MatchAt(name, last_) == MatchGroups(name, RunStart(name, last_), last_)

\* re.match(cfg.frame_extract_re, name): the last maximal run of digits of
\* name, what precedes it (absent when nothing does) and what follows it;
\* no match when name holds no digit
FrameMatch(name) ==
    IF \A k \in 1..Len(name) : ~IsDigit(name[k])
    THEN [matched |-> FALSE, head_is_none |-> FALSE, head |-> <<>>,
          frame |-> <<>>, tail |-> <<>>]
    ELSE MatchAt(name, LastDigit(name))

extract_groups(name, frame_match) ==
    IF frame_match.matched
    THEN <<IF frame_match.head_is_none THEN <<>> ELSE frame_match.head,
           frame_match.frame, frame_match.tail>>
    ELSE <<name, <<>>, <<>>>>

extract_frame(name) == extract_groups(name, FrameMatch(name))

\* File.__init__, the part that sets File.tail
FileTail(tail, ext) ==
    IF Len(ext) = 0 THEN <<>> ELSE Join(<<tail, ext>>, <<".">>)

\* File.frame
FileFrame(framenum) == IF Len(framenum) = 0 THEN None ELSE int(framenum)

\* File.__init__, lines 137-148, from the results of os.path.split (sp),
\* split_extension (se) and extract_frame (parts)
File_fields(filepath, sp, se, parts) ==
    [abspath |-> filepath,
     path |-> sp[1],
     name |-> sp[2],
     base |-> se[1],
     ext |-> se[2],
     namehead |-> parts[1],
     framenum |-> parts[2],
     head |-> os_path_join(sp[1], parts[1]),
     tail |-> FileTail(parts[3], se[2]),
     padding |-> Len(parts[2]),
     frame |-> FileFrame(parts[2])]

File_parts(filepath, sp, se) ==
    File_fields(filepath, sp, se, extract_frame(se[1]))

File_named(filepath, sp) == File_parts(filepath, sp, split_extension(sp[2]))

\* File.__init__(filepath); the stat snapshot is left out
File__init__(filepath) == File_named(filepath, os_path_split(filepath))

\* File.get_seq_key(ignore_padding) with a bool argument
File_get_seq_key(file, ignore_padding) ==
    file.head
    \o (IF Len(file.framenum) = 0 THEN <<>>
        ELSE IF ignore_padding THEN <<"#">>
        ELSE <<"%", "0">> \o str(file.padding) \o <<"d">>)
    \o file.tail

-----------------------------------------------------------------------------
(* The paths the Sequence is exercised with, directory /d *)

D(name) == <<"/", "d", "/">> \o name

P_a1 == D(<<"a", ".", "1", ".", "e", "x", "r">>)

P_a01 == D(<<"a", ".", "0", "1", ".", "e", "x", "r">>)

P_a2 == D(<<"a", ".", "2", ".", "e", "x", "r">>)

P_a005 == D(<<"a", ".", "0", "0", "5", ".", "e", "x", "r">>)

P_b2 == D(<<"b", ".", "2", ".", "e", "x", "r">>)

P_n == D(<<"n", ".", "t", "x", "t">>)

P_a1tmp == D(<<"a", ".", "1", ".", "t", "m", "p">>)

P_a5EXR == D(<<"a", ".", "5", ".", "E", "X", "R">>)

P_c1x == D(<<"c", "1", "x">>)

P_c2y == D(<<"c", "2", "y">>)

SeqPaths == {P_a1, P_a01, P_a2, P_a005, P_b2, P_n, P_c1x, P_c2y}

ParserPaths == {P_a1, P_a01, P_a2, P_n, P_a1tmp, P_a5EXR}


AllPaths == SeqPaths \cup ParserPaths

\* File(filepath) and file.get_seq_key(ignore_padding), each computed once
\* for every path in use and then looked up
FileTable == [p \in AllPaths |-> File__init__(p)]

File(filepath) == FileTable[filepath]

KeyTable ==
    [p \in AllPaths |-> [ip \in BOOLEAN |-> File_get_seq_key(File(p), ip)]]

get_seq_key(file, ignore_padding) == KeyTable[file.abspath][ignore_padding]

\* file.ext.lower(), computed once for every path in use
LowerTable == [p \in AllPaths |-> Lower(File(p).ext)]

ext_lower(file) == LowerTable[file.abspath]

-----------------------------------------------------------------------------
(* models.py: Sequence *)

\* Sequence.__init__ before it appends: the attributes of an empty Sequence
EmptySequence ==
    [_frames |-> [f \in {} |-> 0],
     seq_name |-> <<>>,
     path |-> <<>>,
     namehead |-> <<>>,
     head |-> <<>>,
     tail |-> <<>>,
     ext |-> <<>>,
     padding |-> 0,
     inconsistent_padding |-> FALSE]

\* Sequence.frames, that is len(self._frames)
frames(self) == Cardinality(DOMAIN self._frames)

\* Sequence.start; min() of an empty dict raises
start(self) == min(DOMAIN self._frames)

\* Sequence.end
end(self) == max(DOMAIN self._frames)

implied_frames(self) == end(self) - start(self) + 1

missing_frames_off(self) == end(self) - start(self) - frames(self)

missing_frames(self) == end(self) - (start(self) - 1) - frames(self)

is_missing_frames(self) == frames(self) # implied_frames(self)

frame_numbers(self) == sorted(DOMAIN self._frames)

RECURSIVE NotIn(_, _, _)
\* [frame for frame in range(a, b) if frame not in keys]
NotIn(a, b, keys) ==
    IF a >= b THEN <<>>
    ELSE (IF a \notin keys THEN <<a>> ELSE <<>>) \o NotIn(a + 1, b, keys)

get_missing_frames(self) ==
    NotIn(start(self), end(self) + 1, DOMAIN self._frames)

\* append, line 504: the membership test made on a path string
append_not_member(self, file, isStr, ignore_padding) ==
    /\ isStr
    /\ Cardinality(DOMAIN self._frames) > 0
    /\ get_seq_key(file, ignore_padding) # self.seq_name

append_never_collides(self, file) == FALSE

\* append, line 518
append_collides(self, file) == file.frame \in DOMAIN self._frames

append_padding_differs(self, file) == self.padding # file.padding

\* append, line 521
append_raises_padding(self, file) == self.padding < file.padding

\* append, lines 511-517: the first file names the Sequence
append_adopt(self, file, ignore_padding) ==
    [self EXCEPT !.namehead = file.namehead,
                 !.path = file.path,
                 !.head = file.head,
                 !.tail = file.tail,
                 !.ext = file.ext,
                 !.padding = file.padding,
                 !.seq_name = get_seq_key(file, ignore_padding)]

\* append, line 524: self._frames[file.frame] = file
append_store(self, file) ==
    [self EXCEPT !._frames =
        [k \in (DOMAIN self._frames) \cup {file.frame} |->
            IF k = file.frame THEN file ELSE self._frames[k]]]

\* a raise that comes after the padding of the file was taken over
append_rejected_padded(self, file, err) ==
    [seq |-> IF self.padding < file.padding
             THEN [self EXCEPT !.inconsistent_padding = TRUE,
                               !.padding = file.padding]
             ELSE self,
     err |-> err]

\* append, lines 506, 509 and 519: the raise ends the call, the Sequence
\* being what the statements before the raise made of it
append_rejected(self, file, err) == [seq |-> self, err |-> err]

\* append_file with the names adopted again whenever the padding is raised
append_file_renames(self, file, isStr, ignore_padding) ==
    IF append_not_member(self, file, isStr, ignore_padding)
    THEN append_rejected(self, file, "ValueError: not a member")
    ELSE IF file.frame = None
    THEN append_rejected(self, file, "ValueError: can not be sequenced")
    ELSE IF frames(self) = 0
    THEN [seq |-> append_store(append_adopt(self, file, ignore_padding), file),
          err |-> "ok"]
    ELSE IF append_collides(self, file)
    THEN append_rejected(self, file, "IndexError")
    ELSE IF append_raises_padding(self, file)
    THEN [seq |-> append_store(
                     [append_adopt(self, file, ignore_padding)
                         EXCEPT !.inconsistent_padding = TRUE], file),
          err |-> "ok"]
    ELSE [seq |-> append_store(self, file), err |-> "ok"]

\* Sequence.append, lines 504-524, once file is a File
append_file(self, file, isStr, ignore_padding) ==
    IF append_not_member(self, file, isStr, ignore_padding)
    THEN append_rejected(self, file, "ValueError: not a member")
    ELSE IF file.frame = None
    THEN append_rejected(self, file, "ValueError: can not be sequenced")
    ELSE IF frames(self) = 0
    THEN [seq |-> append_store(append_adopt(self, file, ignore_padding), file),
          err |-> "ok"]
    ELSE IF append_collides(self, file)
    THEN append_rejected(self, file, "IndexError")
    ELSE IF append_raises_padding(self, file)
    THEN [seq |-> append_store(
                     [self EXCEPT !.inconsistent_padding = TRUE,
                                  !.padding = file.padding], file),
          err |-> "ok"]
    ELSE [seq |-> append_store(self, file), err |-> "ok"]

\* Sequence.append(file) with file a path string (isStr) or File(filepath);
\* ignore_padding is cfg.ignore_padding at the call.  The result is the
\* Sequence after the call and the exception raised, if any.
append(self, filepath, isStr, ignore_padding) ==
    append_file(self, File(filepath), isStr, ignore_padding)

\* Sequence.__init__, lines 386-396, with cfg.ignore_padding already set
Sequence_new(fileOpt, isStr, ignore_padding) ==
    IF Len(fileOpt) = 0 THEN [seq |-> EmptySequence, err |-> "ok"]
    ELSE append(EmptySequence, fileOpt[1], isStr, ignore_padding)

\* Sequence.__init__, lines 384-385: cfg.ignore_padding after the call
Sequence_cfg(ipOpt, cfg_ip) == IF Len(ipOpt) = 0 THEN cfg_ip ELSE ipOpt[1]

\* Sequence(file, ignore_padding): fileOpt and ipOpt are <<>> for None, <<v>>
\* for a value
Sequence__init__(fileOpt, isStr, ipOpt, cfg_ip) ==
    Sequence_new(fileOpt, isStr, Sequence_cfg(ipOpt, cfg_ip))

-----------------------------------------------------------------------------
(* Values of the variables a specification does not use *)

NoCall == [op |-> "none", path |-> <<>>, isStr |-> FALSE, err |-> "ok"]

Idle == <<>>

-----------------------------------------------------------------------------
(* Specification Spec: one Sequence object, built and appended to *)

Init ==
    /\ cfg_ignore_padding \in BOOLEAN
    /\ seq = EmptySequence
    /\ last = NoCall
    /\ order = <<>>
    /\ parser = Idle /\ listing = Idle /\ run = Idle
    /\ frame_list = Idle /\ arg_list = Idle /\ ranges_out = Idle
    /\ fmt_template = Idle /\ fmt_out = Idle
    /\ file_path = Idle /\ file_obj = Idle

OtherVars == <<parser, listing, run, frame_list, arg_list, ranges_out, fmt_template,
               fmt_out, file_path, file_obj>>

\* the variables after a call on seq that returned r: append leaves the
\* object as the call made it, a constructor that raises leaves seq bound
\* to the object it was bound to
Called(op, r, filepath, isStr, inserted) ==
    /\ seq' = IF op = "append" \/ r.err = "ok" THEN r.seq ELSE seq
    /\ last' = [op |-> op, path |-> filepath, isStr |-> isStr, err |-> r.err]
    /\ order' = IF r.err = "ok" THEN inserted ELSE order

\* seq.append(filepath) or seq.append(File(filepath))
SequenceAppend(filepath, isStr) ==
    /\ frames(seq) < MaxFrames
    /\ Called("append", append(seq, filepath, isStr, cfg_ignore_padding),
              filepath, isStr, order \o <<filepath>>)
    /\ UNCHANGED <<cfg_ignore_padding, OtherVars>>

\* seq = Sequence(file, ignore_padding); when the constructor raises, seq
\* stays bound to the object it was bound to
SequenceNew(fileOpt, isStr, ipOpt) ==
    /\ cfg_ignore_padding' = Sequence_cfg(ipOpt, cfg_ignore_padding)
    /\ Called("new",
              Sequence__init__(fileOpt, isStr, ipOpt, cfg_ignore_padding),
              IF Len(fileOpt) = 0 THEN <<>> ELSE fileOpt[1], isStr, fileOpt)
    /\ UNCHANGED OtherVars

Next ==
    \/ \E p \in SeqPaths, isStr \in BOOLEAN : SequenceAppend(p, isStr)
    \/ \E fileOpt \in {<<>>} \cup {<<p>> : p \in SeqPaths},
          isStr \in BOOLEAN, ipOpt \in {<<>>, <<TRUE>>, <<FALSE>>} :
            SequenceNew(fileOpt, isStr, ipOpt)

Spec == Init /\ [][Next]_vars

-----------------------------------------------------------------------------
(* parsing.py: Parser.  _sequences, a dict, is the sequence of its items    *)
(* in insertion order; popitem() takes the last.                            *)

\* a reset that leaves the buckets as they are
Parser_reset_keeps(self) ==
    [self EXCEPT !._sequences = <<>>,
                 !.parsed = FALSE]

\* Parser._reset
Parser_reset(self) ==
    [self EXCEPT !._sequences = <<>>,
                 !.sequences = <<>>,
                 !.single_frames = <<>>,
                 !.non_sequences = <<>>,
                 !.excluded = <<>>,
                 !.collisions = <<>>,
                 !.parsed = FALSE]

\* Parser(include_exts, exclude_exts, ignore_padding=ignore_padding); the
\* extensions are given as sets, an empty list giving the empty set
Parser__init__(include_exts, exclude_exts, ignore_padding) ==
    [include_exts |-> include_exts,
     exclude_exts |-> exclude_exts,
     ignore_padding |-> ignore_padding,
     _sequences |-> <<>>,
     sequences |-> <<>>,
     single_frames |-> <<>>,
     non_sequences |-> <<>>,
     excluded |-> <<>>,
     collisions |-> <<>>,
     parsed |-> FALSE]

\* Sequence.__getitem__(0): the File of the least frame number
Sequence_first(s) == s._frames[min(DOMAIN s._frames)]

cleanup_is_short(s) == frames(s) <= 2

\* _cleanup, line 122
cleanup_is_single(s) == frames(s) = 1

\* _cleanup, lines 122-125, for the popped Sequence s
cleanup_one(self, s) ==
    IF cleanup_is_single(s)
    THEN [self EXCEPT !.single_frames = Append(@, Sequence_first(s)),
                      !._sequences = SubSeq(@, 1, Len(@) - 1)]
    ELSE [self EXCEPT !.sequences = Append(@, s),
                      !._sequences = SubSeq(@, 1, Len(@) - 1)]

RECURSIVE Parser_cleanup(_)
\* Parser._cleanup
Parser_cleanup(self) ==
    IF Len(self._sequences) = 0 THEN [self EXCEPT !.parsed = TRUE]
    ELSE Parser_cleanup(
            cleanup_one(self, self._sequences[Len(self._sequences)].seq))

\* the filter with "and" binding looser than "or"
sort_excludes_regrouped(self, file_) ==
    /\ self.include_exts # {}
    /\ \/ ext_lower(file_) \notin self.include_exts
       \/ ext_lower(file_) \in self.exclude_exts

\* _sort_file, lines 131-132
sort_excludes(self, file_) ==
    \/ (self.include_exts # {} /\ ext_lower(file_) \notin self.include_exts)
    \/ ext_lower(file_) \in self.exclude_exts

\* the position of seq_name in _sequences, 0 when it is no key
KeyIndex(items, seq_name) ==
    IF \A i \in 1..Len(items) : items[i].key # seq_name THEN 0
    ELSE CHOOSE i \in 1..Len(items) : items[i].key = seq_name

\* _sort_file, lines 141-144: r is what the append returned
sort_appended(self, file_, i, r) ==
    IF r.err = "IndexError"
    THEN [self EXCEPT !.collisions = Append(@, file_)]
    ELSE [self EXCEPT !._sequences[i].seq = r.seq]

\* _sort_file, lines 140-146; i is the position of seq_name in _sequences
sort_keyed(self, file_, seq_name, i, cfg_ip) ==
    IF i # 0
    THEN sort_appended(self, file_, i,
                       append_file(self._sequences[i].seq, file_, FALSE, cfg_ip))
    ELSE [self EXCEPT !._sequences =
            Append(@, [key |-> seq_name,
                       seq |-> Sequence__init__(<<file_.abspath>>, FALSE,
                                                <<>>, cfg_ip).seq])]

\* _sort_file, line 139: file_.get_seq_key() reads cfg.ignore_padding
sort_key(self, file_, cfg_ip) == get_seq_key(file_, cfg_ip)

sort_sequenced(self, file_, seq_name, cfg_ip) ==
    sort_keyed(self, file_, seq_name, KeyIndex(self._sequences, seq_name), cfg_ip)

\* _sort_file, lines 131-146, once file_ is a File
sort_File(self, file_, cfg_ip) ==
    IF sort_excludes(self, file_)
    THEN [self EXCEPT !.excluded = Append(@, file_)]
    ELSE IF file_.frame = None
    THEN [self EXCEPT !.non_sequences = Append(@, file_)]
    ELSE sort_sequenced(self, file_, sort_key(self, file_, cfg_ip), cfg_ip)

\* Parser._sort_file(file_); cfg_ip is cfg.ignore_padding
Parser_sort_file(self, filepath, cfg_ip) ==
    sort_File(self, File(filepath), cfg_ip)

RECURSIVE sort_all(_, _, _)
\* the loop of parse_directory (lines 161-166) and parse_file (190-200)
sort_all(self, files, cfg_ip) ==
    IF Len(files) = 0 THEN self
    ELSE sort_all(Parser_sort_file(self, Head(files), cfg_ip), Tail(files),
                  cfg_ip)

\* Parser.parse_directory(directory): isdir says whether directory is an
\* available directory, files is what get_files_in_directory returns
parse_directory(self, isdir, files, cfg_ip) ==
    IF isdir
    THEN Parser_cleanup(sort_all(Parser_reset(self), files, cfg_ip))
    ELSE Parser_reset(self)

\* Parser.parse_file(filepath) with csv off: isfile says whether filepath is
\* a file, lines are its lines, stripped
parse_file(self, isfile, lines, cfg_ip) ==
    IF isfile
    THEN Parser_cleanup(sort_all(Parser_reset(self), lines, cfg_ip))
    ELSE Parser_reset(self)

-----------------------------------------------------------------------------
(* Specification SpecParser: one Parser, run over a listing *)

Ext_exr == <<"e", "x", "r">>

Ext_tmp == <<"t", "m", "p">>

Listings == UNION {[1..n -> ParserPaths] : n \in 0..MaxFiles}

\* whether some bucket of the Parser holds anything
Parser_has_results(self) ==
    Len(self.sequences) + Len(self.single_frames) + Len(self.non_sequences)
        + Len(self.excluded) + Len(self.collisions) > 0

\* the record of the last run: the method, whether its input was available,
\* its files, and whether the Parser had results when it was called
NoRun == [op |-> "none", ok |-> FALSE, files |-> <<>>, had |-> FALSE]

InitParser ==
    /\ cfg_ignore_padding \in BOOLEAN
    /\ \E inc \in {{}, {Ext_exr}}, exc \in {{}, {Ext_tmp}}, ip \in BOOLEAN :
          parser = Parser__init__(inc, exc, ip)
    /\ listing \in Listings
    /\ run = NoRun
    /\ seq = Idle /\ last = Idle /\ order = Idle
    /\ frame_list = Idle /\ arg_list = Idle /\ ranges_out = Idle
    /\ fmt_template = Idle /\ fmt_out = Idle
    /\ file_path = Idle /\ file_obj = Idle

NonParserVars == <<seq, last, order, frame_list, arg_list, ranges_out,
                   fmt_template, fmt_out, file_path, file_obj>>

\* parser.parse_directory(directory)
ParseDirectory(isdir) ==
    /\ parser' = parse_directory(parser, isdir, listing, cfg_ignore_padding)
    /\ run' = [op |-> "parse_directory", ok |-> isdir, files |-> listing,
               had |-> Parser_has_results(parser)]
    /\ UNCHANGED <<cfg_ignore_padding, listing, NonParserVars>>

\* parser.parse_file(filepath)
ParseFile(isfile) ==
    /\ parser' = parse_file(parser, isfile, listing, cfg_ignore_padding)
    /\ run' = [op |-> "parse_file", ok |-> isfile, files |-> listing,
               had |-> Parser_has_results(parser)]
    /\ UNCHANGED <<cfg_ignore_padding, listing, NonParserVars>>

NextParser ==
    \/ \E isdir \in BOOLEAN : ParseDirectory(isdir)
    \/ \E isfile \in BOOLEAN : ParseFile(isfile)

SpecParser == InitParser /\ [][NextParser]_vars


-----------------------------------------------------------------------------
(* Claims about Sequence, under Spec *)

\* the files inserted so far, in order
Inserted == [i \in 1..Len(order) |-> File(order[i])]

\* C1: appending a file whose frame number is already a key always signals
\* the frame collision (IndexError) and leaves the Sequence as it was; the
\* File stored under a frame number is the first one inserted with it, and
\* no two inserted files share a frame number.
C1_CollisionNeverOverwrites ==
    /\ \A p \in SeqPaths, isStr \in BOOLEAN :
          (/\ File(p).frame \in DOMAIN seq._frames
           /\ (isStr => get_seq_key(File(p), cfg_ignore_padding) = seq.seq_name))
          => append(seq, p, isStr, cfg_ignore_padding)
                = [seq |-> seq, err |-> "IndexError"]
    /\ \A i, j \in 1..Len(order) :
          Inserted[i].frame = Inserted[j].frame => i = j
    /\ DOMAIN seq._frames = {Inserted[i].frame : i \in 1..Len(order)}
    /\ \A i \in 1..Len(order) : seq._frames[Inserted[i].frame] = Inserted[i]

\* a second file with the frame number of a stored one was appended and
\* refused
C1_Witness ==
    /\ last.op = "append" /\ last.err = "IndexError"
    /\ File(last.path).frame \in DOMAIN seq._frames
    /\ seq._frames[File(last.path).frame].abspath # last.path
    /\ get_seq_key(File(last.path), cfg_ignore_padding) = seq.seq_name

\* C4: append on a non-empty Sequence refuses, without inserting, a file
\* whose key differs from seq_name, be it a path string or a File; every
\* stored File has the head, tail and extension of the Sequence.
C4_KeyMismatchRejected ==
    /\ \A p \in SeqPaths, isStr \in BOOLEAN :
          (/\ frames(seq) > 0
           /\ get_seq_key(File(p), cfg_ignore_padding) # seq.seq_name)
          => /\ append(seq, p, isStr, cfg_ignore_padding).err # "ok"
             /\ append(seq, p, isStr, cfg_ignore_padding).seq = seq
    /\ \A k \in DOMAIN seq._frames :
          /\ seq._frames[k].head = seq.head
          /\ seq._frames[k].tail = seq.tail
          /\ seq._frames[k].ext = seq.ext

\* C5: on a non-empty Sequence start and end are the least and greatest
\* key, implied_frames = end - start + 1, get_missing_frames() lists in
\* ascending order exactly the integers of [start, end] that are no key,
\* missing_frames is the length of that list and implied_frames - frames,
\* and is_missing_frames holds exactly when the list is not empty.
C5_RangeFacts ==
    frames(seq) > 0 =>
        LET keys == DOMAIN seq._frames
            m == get_missing_frames(seq)
        IN /\ start(seq) \in keys /\ end(seq) \in keys
           /\ \A k \in keys : start(seq) <= k /\ k <= end(seq)
           /\ implied_frames(seq) = end(seq) - start(seq) + 1
           /\ {m[i] : i \in 1..Len(m)}
                 = {x \in start(seq)..end(seq) : x \notin keys}
           /\ \A i \in 1..(Len(m) - 1) : m[i] < m[i + 1]
           /\ missing_frames(seq) = Len(m)
           /\ missing_frames(seq) = implied_frames(seq) - frames(seq)
           /\ is_missing_frames(seq) <=> Len(m) > 0

\* a Sequence with a gap of two frames
C5_Witness ==
    /\ DOMAIN seq._frames = {1, 2, 5}
    /\ get_missing_frames(seq) = <<3, 4>>
    /\ missing_frames(seq) = 2
    /\ is_missing_frames(seq)

\* C8: padding is the greatest padding of the stored Files;
\* inconsistent_padding holds exactly when some insertion after the first
\* had a padding greater than every earlier one (the padding of the Sequence
\* at that moment); appending a file whose padding is not greater changes
\* neither.
C8_PaddingRule ==
    /\ frames(seq) > 0 =>
          seq.padding = max({seq._frames[k].padding : k \in DOMAIN seq._frames})
    /\ seq.inconsistent_padding <=>
          \E i \in 2..Len(order) :
              \A j \in 1..(i - 1) : Inserted[i].padding > Inserted[j].padding
    /\ \A p \in SeqPaths, isStr \in BOOLEAN :
          (frames(seq) > 0 /\ File(p).padding <= seq.padding)
          => /\ append(seq, p, isStr, cfg_ignore_padding).seq.padding
                  = seq.padding
             /\ append(seq, p, isStr, cfg_ignore_padding).seq.inconsistent_padding
                  = seq.inconsistent_padding

\* a shorter frame number inserted after a longer one: the paddings differ
\* and the flag is not set
C8_Witness ==
    /\ Len(order) = 2
    /\ last.op = "append" /\ last.err = "ok"
    /\ Inserted[1].padding > Inserted[2].padding
    /\ ~seq.inconsistent_padding
    /\ seq.padding = Inserted[1].padding

NameParts(self) ==
    <<self.seq_name, self.namehead, self.path, self.head, self.tail, self.ext>>

\* one step, as C9 has it: an append to a non-empty Sequence keeps the names,
\* the first successful append sets them, and they are those of the first
\* File inserted
C9_Step ==
    /\ (last'.op = "append" /\ frames(seq) > 0)
          => NameParts(seq') = NameParts(seq)
    /\ (last'.op = "append" /\ frames(seq) = 0 /\ last'.err = "ok")
          => /\ seq'.seq_name
                  = File_get_seq_key(File(last'.path), cfg_ignore_padding)
             /\ order' = <<last'.path>>
    /\ Len(order') > 0
          => /\ seq'.namehead = File(order'[1]).namehead
             /\ seq'.path = File(order'[1]).path
             /\ seq'.head = File(order'[1]).head
             /\ seq'.tail = File(order'[1]).tail
             /\ seq'.ext = File(order'[1]).ext
             /\ seq'.seq_name \in
                   {File_get_seq_key(File(order'[1]), ip) : ip \in BOOLEAN}

\* C9: the first successful append sets seq_name and the naming parts from
\* its file, seq_name being the key under cfg.ignore_padding at that call;
\* no later append, successful or failed, changes them, and they stay those
\* of the first File (the pad specifier of a strict seq_name keeps the first
\* File's padding after Sequence.padding was raised).
C9_NamesFixedByFirstAppend == [][C9_Step]_vars

\* a strict Sequence whose padding was raised and whose seq_name still
\* carries the pad specifier of its first File
C9_Witness ==
    /\ Len(order) >= 2
    /\ last.op = "append" /\ last.err = "ok"
    /\ seq.seq_name = File_get_seq_key(File(order[1]), FALSE)
    /\ seq.padding > File(order[1]).padding
    /\ seq.inconsistent_padding

\* a step that is an append which raised leaves the Sequence as it was
C14_Step ==
    (last'.op = "append" /\ last'.err # "ok") =>
        /\ seq'._frames = seq._frames
        /\ seq'.padding = seq.padding
        /\ seq'.inconsistent_padding = seq.inconsistent_padding
        /\ seq'.seq_name = seq.seq_name
        /\ NameParts(seq') = NameParts(seq)
        /\ seq' = seq

\* C14: an append that is rejected (no frame number, a frame number that
\* collides, a key that does not match) leaves the frame map, padding,
\* inconsistent_padding, seq_name and the naming parts as they were before
\* the call; a colliding File of larger padding does not raise the padding.
C14_RejectedAppendChangesNothing == [][C14_Step]_vars

\* a File of larger padding was rejected for its frame number: the padding
\* is still that of the stored files
C14_Witness ==
    /\ last.op = "append"
    /\ last.err = "IndexError"
    /\ File(last.path).padding > seq.padding
    /\ ~seq.inconsistent_padding
    /\ frames(seq) >= 1

-----------------------------------------------------------------------------
(* Claims about Parser, under SpecParser *)

\* the Files of the last run's input, in input order
RunFiles == [i \in 1..Len(run.files) |-> File(run.files[i])]

\* the rule of the excluded bucket
Filtered(f) ==
    \/ (parser.include_exts # {} /\ ext_lower(f) \notin parser.include_exts)
    \/ ext_lower(f) \in parser.exclude_exts

\* the file can go to a Sequence: not filtered, and with a frame number
Keyed(f) == ~Filtered(f) /\ f.frame # None

\* the key of the file in the last run, cfg.ignore_padding being what it was
RunKey(f) == get_seq_key(f, cfg_ignore_padding)

\* the place of the i-th input file, by the precedence of the claim
Place(i) ==
    IF Filtered(RunFiles[i]) THEN "excluded"
    ELSE IF RunFiles[i].frame = None THEN "non_sequences"
    ELSE IF \E j \in 1..(i - 1) :
               /\ Keyed(RunFiles[j])
               /\ RunKey(RunFiles[j]) = RunKey(RunFiles[i])
               /\ RunFiles[j].frame = RunFiles[i].frame
    THEN "collisions"
    ELSE "member"

RECURSIVE Placed(_, _)
\* the input files from the i-th on whose place is b, in input order
Placed(b, i) ==
    IF i > Len(run.files) THEN <<>>
    ELSE (IF Place(i) = b THEN <<RunFiles[i]>> ELSE <<>>) \o Placed(b, i + 1)

RECURSIVE SumFrames(_)
SumFrames(seqs) ==
    IF Len(seqs) = 0 THEN 0 ELSE frames(Head(seqs)) + SumFrames(Tail(seqs))

Members == {RunFiles[i] : i \in {j \in 1..Len(run.files) : Place(j) = "member"}}

\* the Files held by the Sequences of parser.sequences
InSequences ==
    UNION {{parser.sequences[n]._frames[k] :
                k \in DOMAIN parser.sequences[n]._frames} :
           n \in 1..Len(parser.sequences)}

Singles == {parser.single_frames[n] : n \in 1..Len(parser.single_frames)}

\* C2: after a completed run every input file is in exactly one place:
\* excluded by the extension rule, else non_sequences without a frame
\* number, else collisions when an earlier file of the same key holds its
\* frame number, else in the Sequence of its key (or, that Sequence having
\* one frame, in single_frames); none is lost, none is there twice.
C2_EveryFileInOnePlace ==
    run.ok =>
        /\ parser.excluded = Placed("excluded", 1)
        /\ parser.non_sequences = Placed("non_sequences", 1)
        /\ parser.collisions = Placed("collisions", 1)
        /\ InSequences \cup Singles = Members
        /\ InSequences \cap Singles = {}
        /\ Len(parser.single_frames) + SumFrames(parser.sequences)
              = Cardinality(Members)
        /\ \A n \in 1..Len(parser.sequences) :
              /\ \A k \in DOMAIN parser.sequences[n]._frames :
                    /\ parser.sequences[n]._frames[k].frame = k
                    /\ RunKey(parser.sequences[n]._frames[k])
                          = parser.sequences[n].seq_name
              /\ \A m \in 1..Len(parser.sequences) :
                    parser.sequences[m].seq_name = parser.sequences[n].seq_name
                    => m = n
        /\ Len(parser.excluded) + Len(parser.non_sequences)
              + Len(parser.collisions) + Len(parser.single_frames)
              + SumFrames(parser.sequences) = Len(run.files)

\* a run of three files: one collides with another, the third is filtered
\* or has no frame number
C2_Witness ==
    /\ run.ok
    /\ Len(run.files) = 3
    /\ Len(parser.collisions) = 1
    /\ Len(parser.single_frames) = 1
    /\ Len(parser.excluded) + Len(parser.non_sequences) = 1

\* C3: when a run has finished, every accumulated Sequence of one frame is
\* in single_frames as its File, every Sequence of sequences holds two
\* frames or more, _sequences is empty and parsed is true.
C3_Finalized ==
    run.ok =>
        /\ parser.parsed
        /\ Len(parser._sequences) = 0
        /\ \A n \in 1..Len(parser.sequences) : frames(parser.sequences[n]) >= 2
        /\ Singles = {f \in Members :
                        \A g \in Members : RunKey(g) = RunKey(f) => g = f}
        /\ Len(parser.single_frames) = Cardinality(Singles)

\* a run that left a Sequence of two frames and a single frame
C3_Witness ==
    /\ run.ok
    /\ Len(parser.sequences) = 1
    /\ frames(parser.sequences[1]) = 2
    /\ Len(parser.single_frames) = 1

\* the Files of the five buckets, those of the Sequences included
Bucketed ==
    InSequences \cup Singles
    \cup {parser.non_sequences[n] : n \in 1..Len(parser.non_sequences)}
    \cup {parser.excluded[n] : n \in 1..Len(parser.excluded)}
    \cup {parser.collisions[n] : n \in 1..Len(parser.collisions)}

\* how many Files the five buckets hold
BucketCount ==
    Len(parser.excluded) + Len(parser.non_sequences)
        + Len(parser.collisions) + Len(parser.single_frames)
        + SumFrames(parser.sequences)

\* C12: every run on a Parser starts from empty buckets, an empty key map
\* and parsed false, so after a run the buckets hold the files of that run
\* only; a run whose directory is not available (or whose manifest is no
\* file) raises nothing, leaves every bucket empty and parsed false, also
\* when the run before it had results.
C12_RunStartsEmpty ==
    run.op # "none" =>
        /\ Len(parser._sequences) = 0
        /\ IF run.ok
           THEN /\ parser.parsed
                /\ BucketCount = Len(run.files)
                /\ Bucketed = {RunFiles[i] : i \in 1..Len(run.files)}
           ELSE /\ ~parser.parsed
                /\ BucketCount = 0
                /\ ~Parser_has_results(parser)

\* a run on an unavailable input, on a Parser that had results
C12_Witness ==
    /\ run.op # "none"
    /\ ~run.ok
    /\ run.had
    /\ ~Parser_has_results(parser)
    /\ ~parser.parsed

\* a second completed run, on a Parser that had results
C12_WitnessRerun ==
    /\ run.ok
    /\ run.had
    /\ Len(run.files) = 3
    /\ BucketCount = 3

\* the key of the file by the flag the Parser was given
ParserKey(f) == File_get_seq_key(f, parser.ignore_padding)

\* f and g are frames of one Sequence of parser.sequences
Together(f, g) ==
    \E n \in 1..Len(parser.sequences) :
        /\ f \in {parser.sequences[n]._frames[k] :
                    k \in DOMAIN parser.sequences[n]._frames}
        /\ g \in {parser.sequences[n]._frames[k] :
                    k \in DOMAIN parser.sequences[n]._frames}

\* C13: the ignore_padding flag given to the Parser decides the key of a
\* run: files that differ in padding only are in one Sequence when the
\* flag is true and in different ones when it is false, whatever
\* cfg.ignore_padding holds.
C13_ParserFlagDecidesKey ==
    run.ok =>
        \A f \in InSequences \cup Singles, g \in InSequences \cup Singles :
            f # g => (Together(f, g) <=> ParserKey(f) = ParserKey(g))

\* the same, with the key that cfg.ignore_padding gives: what the run does
C13_ConfigurationDecidesKey ==
    run.ok =>
        \A f \in InSequences \cup Singles, g \in InSequences \cup Singles :
            f # g => (Together(f, g) <=> RunKey(f) = RunKey(g))

-----------------------------------------------------------------------------
(* models.py: frame_ranges_to_string *)

ranges_joins_any(ranges, x) ==
    x - 1 >= ranges[Len(ranges)][Len(ranges[Len(ranges)])]

\* lines 63-67: x joins the last range or opens a new one
ranges_joins(ranges, x) == x - 1 = ranges[Len(ranges)][Len(ranges[Len(ranges)])]

ranges_add(ranges, x) ==
    IF ranges_joins(ranges, x)
    THEN [ranges EXCEPT ![Len(ranges)] = Append(@, x)]
    ELSE Append(ranges, <<x>>)

RECURSIVE ranges_loop(_, _)
\* lines 62-67: the loop over what is left of frame_list
ranges_loop(ranges, rest) ==
    IF Len(rest) = 0 THEN ranges
    ELSE ranges_loop(ranges_add(ranges, Head(rest)), Tail(rest))

\* lines 70-73: one range as a string
range_string(x) ==
    IF Len(x) > 1 THEN Join(<<str(x[1]), str(x[Len(x)])>>, <<"-">>)
    ELSE str(x[1])

\* lines 68-75
ranges_string(ranges) ==
    <<"[">>
    \o Join([i \in 1..Len(ranges) |-> range_string(ranges[i])], <<",", " ">>)
    \o <<"]">>

\* frame_ranges_to_string(lst) for a list lst: what it returns, and the
\* caller's list after the call (pop(0) takes its first element away)
frame_ranges_to_string(lst) ==
    IF Len(lst) = 0
    THEN [out |-> <<"[", "]">>, frame_list |-> lst]
    ELSE [out |-> ranges_string(ranges_loop(<<<<Head(lst)>>>>, Tail(lst))),
          frame_list |-> Tail(lst)]

-----------------------------------------------------------------------------
(* Specification SpecRanges: frame_ranges_to_string on a sorted list *)

\* the strictly ascending lists of at most MaxListLen numbers of
\* 0..MaxFrameNo
FrameLists ==
    {sorted(S) : S \in {T \in SUBSET (0..MaxFrameNo) :
                            Cardinality(T) <= MaxListLen}}

InitRanges ==
    /\ frame_list \in FrameLists
    /\ arg_list = <<>>
    /\ ranges_out = <<>>
    /\ cfg_ignore_padding = FALSE
    /\ seq = Idle /\ last = Idle /\ order = Idle
    /\ parser = Idle /\ listing = Idle /\ run = Idle
    /\ fmt_template = Idle /\ fmt_out = Idle
    /\ file_path = Idle /\ file_obj = Idle

\* the variables after frame_ranges_to_string(frame_list) returned r
Returned(r) ==
    /\ ranges_out' = r.out
    /\ frame_list' = r.frame_list

\* ranges_out = frame_ranges_to_string(frame_list); arg_list records the
\* list as it was handed over
FrameRangesToString ==
    /\ arg_list' = <<frame_list>>
    /\ Returned(frame_ranges_to_string(frame_list))
    /\ UNCHANGED <<cfg_ignore_padding, seq, last, order, parser, listing, run,
                   fmt_template, fmt_out, file_path, file_obj>>

NextRanges == FrameRangesToString

SpecRanges == InitRanges /\ [][NextRanges]_vars

-----------------------------------------------------------------------------
(* Claims about frame_ranges_to_string, under SpecRanges *)

\* the positions of l where a maximal block of consecutive integers starts
BlockStarts(l) == {i \in 1..Len(l) : i = 1 \/ l[i] # l[i - 1] + 1}

\* the position where the block starting at position i ends
BlockEnd(l, i) ==
    CHOOSE j \in i..Len(l) :
        /\ \A k \in i..j : l[k] = l[i] + (k - i)
        /\ (j = Len(l) \/ l[j + 1] # l[j] + 1)

\* 'first-last' for a block of two or more, the integer alone for one
BlockText(l, i) ==
    IF BlockEnd(l, i) > i
    THEN str(l[i]) \o <<"-">> \o str(l[BlockEnd(l, i)])
    ELSE str(l[i])

RECURSIVE BlocksText(_, _)
\* the blocks that start at the positions of S, joined by ', '
BlocksText(l, S) ==
    IF S = {} THEN <<>>
    ELSE IF Cardinality(S) = 1 THEN BlockText(l, min(S))
    ELSE BlockText(l, min(S)) \o <<",", " ">> \o BlocksText(l, S \ {min(S)})

\* the companion parser: the integers a piece 'a' or 'a-b' denotes
PieceSet(piece) ==
    LET ends == Split(piece, "-")
    IN IF Len(ends) = 1 THEN {int(ends[1])}
       ELSE int(ends[1])..int(ends[2])

\* a piece without the blank that follows the comma
Strip(piece) ==
    IF Len(piece) > 0 /\ piece[1] = " " THEN Tail(piece) ELSE piece

\* the companion parser: the integers a string '[a-b, c]' denotes
Denoted(text) ==
    LET inner == SubSeq(text, 2, Len(text) - 1)
        pieces == Split(inner, ",")
    IN IF Len(inner) = 0 THEN {}
       ELSE UNION {PieceSet(Strip(pieces[i])) : i \in 1..Len(pieces)}

\* C6: for a sorted list of distinct integers the result is '[' + the
\* maximal blocks of consecutive integers, in order, joined by ', ' + ']',
\* a block of two or more as 'first-last' and a block of one as the integer;
\* '[]' for the empty list; the integers the result denotes are those of
\* the list.
C6_RangesString ==
    Len(arg_list) = 1 =>
        /\ ranges_out
              = <<"[">> \o BlocksText(arg_list[1], BlockStarts(arg_list[1]))
                \o <<"]">>
        /\ Len(arg_list[1]) = 0 => ranges_out = <<"[", "]">>
        /\ Denoted(ranges_out)
              = {arg_list[1][i] : i \in 1..Len(arg_list[1])}

\* [1, 2, 3, 5] gives '[1-3, 5]'
C6_Witness ==
    /\ arg_list = <<(<<1, 2, 3, 5>>)>>
    /\ ranges_out = <<"[", "1", "-", "3", ",", " ", "5", "]">>

\* a run that crosses from one digit to two
C6_WitnessTwoDigits ==
    /\ arg_list = <<(<<9, 10, 11>>)>>
    /\ ranges_out = <<"[", "9", "-", "1", "1", "]">>

\* C15: frame_ranges_to_string is a pure function of its argument: after
\* the call the caller's list has the same elements in the same order as
\* before, for every input, so a second call on the same list returns the
\* same string.
C15_ArgumentUnchanged ==
    Len(arg_list) = 1 =>
        /\ frame_list = arg_list[1]
        /\ frame_ranges_to_string(frame_list).out = ranges_out

\* what the call does to a list: its first element is gone
C15_FirstElementPopped ==
    Len(arg_list) = 1 =>
        frame_list = IF Len(arg_list[1]) = 0 THEN <<>> ELSE Tail(arg_list[1])

-----------------------------------------------------------------------------
(* models.py: Sequence.format *)

\* the directive letters of directive_mapper, lines 575-590
Directives ==
    {"%", "p", "h", "H", "f", "r", "R", "m", "M", "D", "P", "t", "T", "e"}

Text(t) == [err |-> "ok", out |-> t]

\* min() or max() of an empty dict
EmptyError == [err |-> "ValueError", out |-> <<>>]

\* __implied_range, lines 627-630
implied_range(self) ==
    IF frames(self) = 0 THEN EmptyError
    ELSE Text(<<"[">> \o self._frames[start(self)].framenum \o <<"-">>
              \o self._frames[end(self)].framenum \o <<"]">>)

\* __explicit_range, lines 632-634
explicit_range(self) == Text(frame_ranges_to_string(frame_numbers(self)).out)

\* __num_missing_frames, lines 636-638
num_missing_frames(self) ==
    IF frames(self) = 0 THEN EmptyError ELSE Text(str(missing_frames(self)))

\* __explicit_missing_range, lines 640-642
explicit_missing_range(self) ==
    IF frames(self) = 0 THEN EmptyError
    ELSE Text(frame_ranges_to_string(get_missing_frames(self)).out)

\* __tail_without_ext, lines 652-654: '.'.join(self.tail.split('.')[:-1])
tail_without_ext(self) ==
    Join(SubSeq(Split(self.tail, "."), 1, Len(Split(self.tail, ".")) - 1),
         <<".">>)

\* directive_mapper['%' + char](), lines 575-590 and 607-662
directive(self, char) ==
    CASE char = "%" -> Text(<<"%">>)
      [] char = "p" -> Text(self.path)
      [] char = "h" -> Text(self.namehead)
      [] char = "H" -> Text(self.head)
      [] char = "f" -> Text(str(frames(self)))
      [] char = "r" -> implied_range(self)
      [] char = "R" -> explicit_range(self)
      [] char = "m" -> num_missing_frames(self)
      [] char = "M" -> explicit_missing_range(self)
      [] char = "D" -> Text(Repeat(<<"#">>, self.padding))
      [] char = "P" -> Text(<<"%", "0">> \o str(self.padding) \o <<"d">>)
      [] char = "t" -> Text(tail_without_ext(self))
      [] char = "T" -> Text(self.tail)
      [] char = "e" -> Text(self.ext)
      [] OTHER -> [err |-> "KeyError", out |-> <<>>]

\* line 597 with the value d of the directive: it is added to new_string,
\* or its exception ends the call
format_add(st, d) ==
    IF d.err = "ok"
    THEN [st EXCEPT !.new_string = @ \o d.out, !.matched = FALSE]
    ELSE [st EXCEPT !.err = d.err]

\* the body of the loop, lines 596-604, for one character
format_char(self, st, char) ==
    IF st.matched THEN format_add(st, directive(self, char))
    ELSE IF char = "%" THEN [st EXCEPT !.matched = TRUE]
    ELSE [st EXCEPT !.new_string = @ \o <<char>>]

RECURSIVE format_loop(_, _, _)
\* the loop, lines 595-604; an exception leaves it
format_loop(self, st, rest) ==
    IF Len(rest) = 0 \/ st.err # "ok" THEN st
    ELSE format_loop(self, format_char(self, st, Head(rest)), Tail(rest))

\* lines 592-605: what the loop leaves is returned or raised
format_result(st) ==
    IF st.err = "ok" THEN Text(st.new_string)
    ELSE [err |-> st.err, out |-> <<>>]

\* Sequence.format(template)
format(self, template) ==
    format_result(
        format_loop(self,
                    [new_string |-> <<>>, matched |-> FALSE, err |-> "ok"],
                    template))

-----------------------------------------------------------------------------
(* Specification SpecFormat: format on a Sequence, built by appends *)

RECURSIVE Built(_, _)
\* the Sequence after appending the Files of paths to self, cfg.ignore_padding
\* being true
Built(self, paths) ==
    IF Len(paths) = 0 THEN self
    ELSE Built(append(self, Head(paths), FALSE, TRUE).seq, Tail(paths))

FormatSeqs ==
    {Built(EmptySequence, paths) :
        paths \in {<<>>, <<P_a01>>, <<P_a1, P_a2, P_a005>>}}

TemplateChars == {"%", "x", "r", "R", "m", "M", "P"}

Templates == UNION {[1..n -> TemplateChars] : n \in 0..MaxTemplateLen}

InitFormat ==
    /\ seq \in FormatSeqs
    /\ fmt_template \in Templates
    /\ fmt_out = <<>>
    /\ cfg_ignore_padding = TRUE
    /\ last = Idle /\ order = Idle
    /\ parser = Idle /\ listing = Idle /\ run = Idle
    /\ frame_list = Idle /\ arg_list = Idle /\ ranges_out = Idle
    /\ file_path = Idle /\ file_obj = Idle

\* fmt_out = seq.format(fmt_template), the result or the exception
Format ==
    /\ fmt_out' = <<format(seq, fmt_template)>>
    /\ UNCHANGED <<cfg_ignore_padding, seq, last, order, parser, listing, run,
                   frame_list, arg_list, ranges_out, fmt_template, file_path,
                   file_obj>>

NextFormat == Format

SpecFormat == InitFormat /\ [][NextFormat]_vars

-----------------------------------------------------------------------------
(* Claims about Sequence.format, under SpecFormat *)

\* the two results in a row: the first exception, or the two texts joined
Then(a, b) ==
    IF a.err # "ok" THEN [err |-> a.err, out |-> <<>>]
    ELSE IF b.err # "ok" THEN [err |-> b.err, out |-> <<>>]
    ELSE Text(a.out \o b.out)

RECURSIVE Rendered(_, _)
\* the template read left to right as the claim has it: '%' and the next
\* character are one directive, every other character stands for itself
Rendered(self, t) ==
    IF Len(t) = 0 THEN Text(<<>>)
    ELSE IF t[1] = "%" /\ Len(t) >= 2
    THEN Then(IF t[2] \in Directives THEN directive(self, t[2])
              ELSE [err |-> "KeyError", out |-> <<>>],
              Rendered(self, SubSeq(t, 3, Len(t))))
    ELSE Then(Text(<<t[1]>>), Rendered(self, Tail(t)))

\* C7: format gives, in order, the expansion of each two-character
\* directive, '%' for '%%' and every other character of the template
\* unchanged; '%' before a character that is no directive raises; so every
\* character of the template is part of a directive or is in the output.
C7_FormatRendersEveryCharacter ==
    Len(fmt_out) = 1 => fmt_out[1] = Rendered(seq, fmt_template)

\* the same, for the templates that do not end in a '%' left without a
\* directive letter
C7_ExceptLoneFinalPercent ==
    (Len(fmt_out) = 1 /\ fmt_out[1] # Rendered(seq, fmt_template))
    => /\ fmt_template[Len(fmt_template)] = "%"
       /\ fmt_out[1].err = "ok"
       /\ Rendered(seq, fmt_template).err = "ok"
       /\ fmt_out[1].out \o <<"%">> = Rendered(seq, fmt_template).out


\* the directives of directive_mapper whose text comes from the frame numbers
FrameDirectives == {"r", "R", "m", "M"}

\* the result of format on an empty Sequence counts as empty, or as the
\* error of an empty Sequence
RendersEmpty(r) == r.err = "ok" /\ Len(r.out) = 0

RaisesEmpty(r) == r.err = "ValueError"

\* C11: on an empty Sequence format treats %r, %R, %m and %M alike: each of
\* them renders as empty, or each of them raises the error of an empty
\* Sequence; none renders text while another raises.
C11_EmptySequenceUniform ==
    (/\ Len(fmt_out) = 1
     /\ frames(seq) = 0
     /\ \E c \in FrameDirectives : fmt_template = <<"%", c>>)
    => \/ \A c \in FrameDirectives :
            /\ RendersEmpty(format(seq, <<"%", c>>))
            /\ RendersEmpty(fmt_out[1])
       \/ \A c \in FrameDirectives :
            /\ RaisesEmpty(format(seq, <<"%", c>>))
            /\ RaisesEmpty(fmt_out[1])

\* on an empty Sequence %r, %m and %M raise and %R is the text '[]'
C11_OnlyExplicitRangeRenders ==
    (/\ Len(fmt_out) = 1
     /\ frames(seq) = 0
     /\ \E c \in FrameDirectives : fmt_template = <<"%", c>>)
    => IF fmt_template[2] = "R"
       THEN fmt_out[1] = Text(<<"[", "]">>)
       ELSE RaisesEmpty(fmt_out[1])

-----------------------------------------------------------------------------
(* Specification SpecFile: File(path) for a path put together from parts *)

FileDirs == {<<>>, <<"/", "d", "/">>}

FileHeads == {<<>>, <<"a">>, <<"a", "7", "_">>}

FileFrames == {<<>>, <<"1">>, <<"0", "2">>}

FileTails == {<<>>, <<"b">>, <<"_", "v">>}

FileExts == {<<>>, <<".", "e", "x", "r">>}

FilePaths ==
    {d \o h \o f \o t \o e :
        d \in FileDirs, h \in FileHeads, f \in FileFrames, t \in FileTails,
        e \in FileExts} \ {d \o e : d \in FileDirs, e \in FileExts}

InitFile ==
    /\ file_path \in FilePaths
    /\ file_obj = <<>>
    /\ cfg_ignore_padding \in BOOLEAN
    /\ seq = Idle /\ last = Idle /\ order = Idle
    /\ parser = Idle /\ listing = Idle /\ run = Idle
    /\ frame_list = Idle /\ arg_list = Idle /\ ranges_out = Idle
    /\ fmt_template = Idle /\ fmt_out = Idle

\* file_obj = File(file_path)
NewFile ==
    /\ file_obj' = <<File__init__(file_path)>>
    /\ UNCHANGED <<cfg_ignore_padding, seq, last, order, parser, listing, run,
                   frame_list, arg_list, ranges_out, fmt_template, fmt_out,
                   file_path>>

NextFile == NewFile

SpecFile == InitFile /\ [][NextFile]_vars

-----------------------------------------------------------------------------
(* Claims about File, under SpecFile *)

\* the stem and the extension of the base name of path
StemExt(path) == split_extension(os_path_split(path)[2])

\* what extract_frame gives for the stem of path
Extracted(path) == extract_frame(StemExt(path)[1])

\* the tail the claim gives the File of path
ClaimedTail(path) ==
    IF Len(StemExt(path)[2]) = 0 THEN Extracted(path)[3]
    ELSE Extracted(path)[3] \o <<".">> \o StemExt(path)[2]

\* two names without extension, in the same directory, that differ only
\* after the frame number
DifferAfterFrame(p, q) ==
    /\ Len(StemExt(p)[2]) = 0 /\ Len(StemExt(q)[2]) = 0
    /\ os_path_split(p)[1] = os_path_split(q)[1]
    /\ Len(Extracted(p)[2]) > 0
    /\ Extracted(p)[1] = Extracted(q)[1]
    /\ Extracted(p)[2] = Extracted(q)[2]
    /\ Extracted(p)[3] # Extracted(q)[3]

\* C10: File.tail is the extractor's tail followed by '.' + extension when
\* there is an extension, and the extractor's tail alone when there is
\* none; so two names without extension that differ only after the frame
\* number have different tails and different keys.
C10_TailKeepsExtractorTail ==
    Len(file_obj) = 1 =>
        /\ file_obj[1].tail = ClaimedTail(file_path)
        /\ \A q \in FilePaths :
              DifferAfterFrame(file_path, q)
              => /\ File__init__(q).tail # file_obj[1].tail
                 /\ File_get_seq_key(File__init__(q), cfg_ignore_padding)
                       # File_get_seq_key(file_obj[1], cfg_ignore_padding)

\* the same for the paths with an extension, or with nothing after the
\* frame number
C10_HoldsWithExtension ==
    (Len(file_obj) = 1
        /\ (Len(StemExt(file_path)[2]) > 0 \/ Len(Extracted(file_path)[3]) = 0))
    => file_obj[1].tail = ClaimedTail(file_path)

====
